---- MODULE Spec2Model ----
(***************************************************************************)
(* Model of the fantasy trade helper in src/starter.py: game-log           *)
(* extraction, the last-N averaging of one player, the team aggregation,   *)
(* the category comparison and the interactive roster builder.             *)
(*                                                                         *)
(* Python floats are modelled as IEEE-754 binary64 numbers with the        *)
(* rounding of each operation.  Python exceptions are modelled as records  *)
(* [exc |-> <exception class>].                                            *)
(***************************************************************************)
EXTENDS Integers, Sequences, FiniteSets, TLC

\* ------------------------------------------------------------------ bounds
MaxStat == 1
MaxGames == 2
MaxN == 2
MaxRoster == 2
NumPlayers == 3
MaxMatches == 2

\* ------------------------------------------------------- float arithmetic
\* A Python float is an IEEE-754 binary64 number.  Every float of the program
\* is finite and non-negative (game-record fields are counts), so a float is
\* modelled as [hi, lo, e] standing for (hi * 2^30 + lo) * 2^e: the 53-bit
\* significand is split in two limbs to stay inside 32-bit integers, it is
\* normalised (2^52 <= significand < 2^53) and 0.0 is [0, 0, 0], so equal
\* floats are equal records.  Exponent overflow and subnormals are out of the
\* range of the values the program computes and are not modelled.

\* the powers of two 2^1 .. 2^30
P2 ==
    <<2, 4, 8, 16, 32, 64, 128, 256, 512, 1024, 2048, 4096, 8192,
      16384, 32768, 65536, 131072, 262144, 524288, 1048576,
      2097152, 4194304, 8388608, 16777216, 33554432, 67108864,
      134217728, 268435456, 536870912, 1073741824>>

Pow2(k) == IF k = 0 THEN 1 ELSE P2[k]

\* the limb size 2^30
Base == Pow2(30)

\* the significand width of a binary64 float
Prec == 53

\* an unsigned integer below 2^60 in two limbs
U(h, l) == [hi |-> h, lo |-> l]

UAdd(x, y) ==
    LET l == x.lo + y.lo
    IN  U(x.hi + y.hi + (l \div Base), l % Base)

\* x - y for x >= y
USub(x, y) ==
    IF x.lo >= y.lo THEN U(x.hi - y.hi, x.lo - y.lo)
    ELSE U(x.hi - y.hi - 1, (x.lo + Base) - y.lo)

ULe(x, y) == x.hi < y.hi \/ (x.hi = y.hi /\ x.lo <= y.lo)

\* x * 2^k, the product staying below 2^60
UShl(x, k) ==
    IF k >= 30 THEN U(x.lo * Pow2(k - 30), 0)
    ELSE U(x.hi * Pow2(k) + (x.lo \div Pow2(30 - k)), (x.lo % Pow2(30 - k)) * Pow2(k))

\* floor(x / 2^k)
UShr(x, k) ==
    IF k >= 60 THEN U(0, 0)
    ELSE IF k >= 30 THEN U(0, x.hi \div Pow2(k - 30))
    ELSE U(x.hi \div Pow2(k), (x.hi % Pow2(k)) * Pow2(30 - k) + (x.lo \div Pow2(k)))

\* bit k of x
UBit(x, k) ==
    IF k >= 60 THEN 0
    ELSE IF k >= 30 THEN (x.hi \div Pow2(k - 30)) % 2
    ELSE (x.lo \div Pow2(k)) % 2

\* x mod 2^k is not zero
ULowNonzero(x, k) ==
    IF k >= 60 THEN x.hi # 0 \/ x.lo # 0
    ELSE IF k >= 30 THEN x.lo # 0 \/ x.hi % Pow2(k - 30) # 0
    ELSE x.lo % Pow2(k) # 0

\* the number of bits of v, 0 <= v < 2^31
BitLen4(v) == IF v >= 8 THEN 4 ELSE IF v >= 4 THEN 3 ELSE IF v >= 2 THEN 2 ELSE v
BitLen8(v) == IF v >= 16 THEN 4 + BitLen4(v \div 16) ELSE BitLen4(v)
BitLen16(v) == IF v >= 256 THEN 8 + BitLen8(v \div 256) ELSE BitLen8(v)
BitLen32(v) == IF v >= 65536 THEN 16 + BitLen16(v \div 65536) ELSE BitLen16(v)

ULen(x) == IF x.hi > 0 THEN 30 + BitLen32(x.hi) ELSE BitLen32(x.lo)

Zero == [hi |-> 0, lo |-> 0, e |-> 0]

\* the float nearest to (x + f) * 2^e, ties to the even significand, where x
\* is an unsigned integer and 0 <= f < 1 with f # 0 exactly when sticky holds
\* (sticky only with x of more than Prec + 1 bits)
RoundU(x, e, sticky) ==
    LET len == ULen(x)
    IN  IF len = 0 THEN Zero
        ELSE IF len <= Prec
        THEN LET y == UShl(x, Prec - len)
             IN  [hi |-> y.hi, lo |-> y.lo, e |-> e - (Prec - len)]
        ELSE LET s == len - Prec
                 q == UShr(x, s)
                 up == /\ UBit(x, s - 1) = 1
                       /\ (sticky \/ ULowNonzero(x, s - 1) \/ q.lo % 2 = 1)
                 r == IF up THEN UAdd(q, U(0, 1)) ELSE q
             IN  IF ULen(r) > Prec
                 THEN [hi |-> r.hi \div 2, lo |-> 0, e |-> e + s + 1]
                 ELSE [hi |-> r.hi, lo |-> r.lo, e |-> e + s]

\* float(x) of an integer 0 <= x < 2^31
float(x) == RoundU(U(x \div Base, x % Base), 0, FALSE)

One == float(1)

\* the significand of a float
Mant(a) == U(a.hi, a.lo)

\* truthiness of a float: nonzero
Truthy(a) == a.hi # 0

\* a + b: the exact sum rounded once.  The operand of the smaller exponent is
\* shifted under three extra bits, the bits shifted out kept as sticky.
FAdd(a, b) ==
    IF ~Truthy(a) THEN b
    ELSE IF ~Truthy(b) THEN a
    ELSE LET big == IF a.e >= b.e THEN a ELSE b
             small == IF a.e >= b.e THEN b ELSE a
             d == big.e - small.e
         IN  IF d > Prec THEN big
             ELSE RoundU(UAdd(UShl(Mant(big), 3), UShr(UShl(Mant(small), 3), d)),
                         big.e - 3,
                         ULowNonzero(UShl(Mant(small), 3), d))

\* long division by a divisor below 2^15: one step brings down `bits` more
\* bits (the digit) of the dividend
DivStep(st, digit, bits, dv) ==
    LET cur == st.r * Pow2(bits) + digit
    IN  [q |-> UAdd(UShl(st.q, bits), U(0, cur \div dv)), r |-> cur % dv]

\* floor(m * 2^17 / dv) and the remainder, for a significand m and dv < 2^15
DivSmall(m, dv) ==
    LET s0 == [q |-> U(0, 0), r |-> 0]
        s1 == DivStep(s0, m.hi \div Pow2(15), 15, dv)
        s2 == DivStep(s1, m.hi % Pow2(15), 15, dv)
        s3 == DivStep(s2, m.lo \div Pow2(15), 15, dv)
        s4 == DivStep(s3, m.lo % Pow2(15), 15, dv)
        s5 == DivStep(s4, 0, 15, dv)
    IN  DivStep(s5, 0, 2, dv)

\* one step of binary long division: the next bit of the quotient is
\* appended to q and the remainder r is doubled, for r < 2 * dv
DivBit(st, dv) ==
    LET bit == ULe(dv, st.r)
        r1 == IF bit THEN USub(st.r, dv) ELSE st.r
    IN  [q |-> UAdd(UAdd(st.q, st.q), U(0, IF bit THEN 1 ELSE 0)), r |-> UAdd(r1, r1)]

\* `steps` steps of binary long division; once the remainder is zero the
\* remaining bits of the quotient are zero
RECURSIVE DivLoop(_, _, _)
DivLoop(st, dv, steps) ==
    IF steps = 0 THEN st
    ELSE IF st.r = U(0, 0) THEN [q |-> UShl(st.q, steps), r |-> st.r]
    ELSE DivLoop(DivBit(st, dv), dv, steps - 1)

\* a / b, for b # 0: the quotient of the significands to Prec + 2 bits
\* or more with the remainder as sticky, rounded once.  A divisor whose
\* significand has at most 15 bits set from the top (every integer below
\* 2^15) is divided digit by digit, any other bit by bit.
FDiv(a, b) ==
    IF ~Truthy(a) THEN Zero
    ELSE IF b.lo = 0 /\ b.hi % 256 = 0
    THEN LET d == DivSmall(Mant(a), b.hi \div 256)
         IN  RoundU(d.q, a.e - b.e - (Prec + 2), d.r # 0)
    ELSE LET d == DivLoop([q |-> U(0, 0), r |-> Mant(a)], Mant(b), Prec + 3)
         IN  RoundU(d.q, a.e - b.e - (Prec + 2), d.r # U(0, 0))

\* a < b
FLt(a, b) ==
    IF ~Truthy(b) THEN FALSE
    ELSE IF ~Truthy(a) THEN TRUE
    ELSE a.e < b.e \/ (a.e = b.e /\ ~ULe(Mant(b), Mant(a)))

\* a <= b
FLe(a, b) == ~FLt(b, a)

\* the float nearest to num / den, for integers num >= 0 and den > 0
Dbl(num, den) == FDiv(float(num), float(den))

\* raising an exception
Raise(e) == [exc |-> e]

IsExc(x) == "exc" \in DOMAIN x

\* ------------------------------------------------------------ game records
\* the keys of a game record that _last_n_averages_by_id reads
Fields == {"FGM", "FGA", "FTM", "FTA", "PTS", "REB", "AST", "STL", "BLK", "TOV", "FG3M"}

\* the per-game keys of a player summary, with the game-record key each sums
PerGameKeys == {"PTS", "REB", "AST", "STL", "BLK", "TOV", "3PM",
                "FGM_pg", "FGA_pg", "FTM_pg", "FTA_pg"}

SourceField(k) ==
    CASE k = "3PM" -> "FG3M"
      [] k = "FGM_pg" -> "FGM"
      [] k = "FGA_pg" -> "FGA"
      [] k = "FTM_pg" -> "FTM"
      [] k = "FTA_pg" -> "FTA"
      [] OTHER -> k

SummaryKeys == PerGameKeys \cup {"games_used", "FG%", "FT%"}

\* sum(float(g[f]) for g in recent), every record of recent having key f
RECURSIVE SumField(_, _)
SumField(recent, f) ==
    IF recent = <<>> THEN Zero
    ELSE FAdd(SumField(SubSeq(recent, 1, Len(recent) - 1), f),
              float(recent[Len(recent)][f]))

Max(a, b) == IF a >= b THEN a ELSE b
Min(a, b) == IF a <= b THEN a ELSE b

\* a record with every key the code reads
WellFormed(g) == Fields \subseteq DOMAIN g

\* the records of games that have every key, in order
RECURSIVE SelectWellFormed(_)
SelectWellFormed(games) ==
    IF games = <<>> THEN <<>>
    ELSE IF WellFormed(Head(games))
         THEN <<Head(games)>> \o SelectWellFormed(Tail(games))
         ELSE SelectWellFormed(Tail(games))

\* mutants of Recent: the window taken from the far end of the log, and
\* records with a missing key skipped
Recent_Oldest(games, n) ==
    IF Len(games) >= n THEN SubSeq(games, Len(games) - n + 1, Len(games)) ELSE games

Recent_SkipMalformed(games, n) ==
    IF Len(SelectWellFormed(games)) >= n THEN SubSeq(SelectWellFormed(games), 1, n)
    ELSE SelectWellFormed(games)

\* games[:n]: the first n records, or all but the last -n for a negative n
Slice(games, n) ==
    IF n >= 0 THEN SubSeq(games, 1, Min(n, Len(games)))
    ELSE SubSeq(games, 1, Max(0, Len(games) + n))

\* games[:n] if len(games) >= n else games
Recent(games, n) == IF Len(games) >= n THEN Slice(games, n) ELSE games

\* mutant of PerGame: the window total, not divided
PerGame_Total(total, recent) == total

\* total / games_count with games_count = max(1, len(recent))
PerGame(total, recent) == FDiv(total, float(Max(1, Len(recent))))

\* mutant of Pct: no attempts reported as 100%
Pct_NoAttemptsOne(makes, attempts) ==
    IF Truthy(attempts) THEN FDiv(makes, attempts) ELSE One

\* mutant of Pct: the percentage on a 0-100 scale
Pct_Percent(makes, attempts) ==
    IF Truthy(attempts) THEN FDiv(makes, FDiv(attempts, float(100))) ELSE Zero

\* (makes / attempts) if attempts else 0.0
Pct(makes, attempts) == IF Truthy(attempts) THEN FDiv(makes, attempts) ELSE Zero

\* the summary computed from the extracted rows
Averages(games, n) ==
    LET recent == Recent(games, n)
    IN  IF \E i \in 1..Len(recent) : ~WellFormed(recent[i])
        THEN Raise("KeyError")
        ELSE [k \in SummaryKeys |->
                CASE k = "games_used" -> Len(recent)
                  [] k = "FG%" -> Pct(SumField(recent, "FGM"), SumField(recent, "FGA"))
                  [] k = "FT%" -> Pct(SumField(recent, "FTM"), SumField(recent, "FTA"))
                  [] OTHER -> PerGame(SumField(recent, SourceField(k)), recent)]

\* ------------------------------------------------- game log source shapes
\* a value returned from a function
Return(v) == [val |-> v]

\* dict(zip(headers, row)): pairs up to the shorter length, a later pair of
\* the same header overriding an earlier one
ZipDict(headers, row) ==
    LET m == Min(Len(headers), Len(row))
        last(h) == CHOOSE i \in 1..m :
                      /\ headers[i] = h
                      /\ \A j \in 1..m : headers[j] = h => j <= i
    IN  [h \in {headers[i] : i \in 1..m} |-> row[last(h)]]

\* truthiness of the value under "resultSets"/"resultSet": None (which also
\* stands for an absent key and an empty dict) and the empty list are falsy
RsTruthy(rs) ==
    CASE rs.t = "none" -> FALSE
      [] rs.t = "list" -> rs.items # <<>>
      [] OTHER -> TRUE

\* 1) the normalized dict: nd is a dict holding a list under "PlayerGameLog"
TryNormalized(gl) ==
    IF gl.nd.kind = "list" THEN Return(gl.nd.rows) ELSE Raise("pass")

\* 2) the raw dict with resultSets/resultSet
TryRaw(gl) ==
    IF gl.rd.kind # "dict" THEN Raise("pass")
    ELSE LET rs == IF RsTruthy(gl.rd.resultSets) THEN gl.rd.resultSets
                   ELSE gl.rd.resultSet
             islist == rs.t = "list" /\ rs.items # <<>>
             isdict == rs.t = "dict"
         IN  IF islist /\ ~rs.items[1].isdict THEN Raise("pass")
             ELSE LET headers == IF islist \/ isdict THEN rs.items[1].headers ELSE <<>>
                      rowset == IF islist \/ isdict THEN rs.items[1].rowSet ELSE <<>>
                  IN  IF headers # <<>> /\ rowset # <<>>
                      THEN Return([i \in 1..Len(rowset) |-> ZipDict(headers, rowset[i])])
                      ELSE Raise("pass")

\* 3) the first pandas DataFrame
TryDataFrame(gl) ==
    IF gl.dfs.kind = "list" /\ gl.dfs.frames # <<>> /\ gl.dfs.frames[1].ok
    THEN Return(gl.dfs.frames[1].records)
    ELSE Raise("pass")

\* mutant of _extract_gamelog_rows: no games when nothing parses
_extract_gamelog_rows_SilentEmpty(gl) ==
    IF ~IsExc(TryNormalized(gl)) THEN TryNormalized(gl)
    ELSE IF ~IsExc(TryRaw(gl)) THEN TryRaw(gl)
    ELSE IF ~IsExc(TryDataFrame(gl)) THEN TryDataFrame(gl)
    ELSE Return(<<>>)

\* the three shapes in order, the first that parses returned
_extract_gamelog_rows(gl) ==
    IF ~IsExc(TryNormalized(gl)) THEN TryNormalized(gl)
    ELSE IF ~IsExc(TryRaw(gl)) THEN TryRaw(gl)
    ELSE IF ~IsExc(TryDataFrame(gl)) THEN TryDataFrame(gl)
    ELSE Raise("RuntimeError")

\* playergamelog.PlayerGameLog(...): the request either raises or yields the
\* response object
PlayerGameLog(src) == src

_last_n_averages_by_id(src, n) ==
    LET gl == PlayerGameLog(src)
    IN  IF IsExc(gl) THEN gl
        ELSE LET games == _extract_gamelog_rows(gl)
             IN  IF IsExc(games) THEN games
                 ELSE Averages(games.val, n)

\* ------------------------------------------------------------ input sets
SeqsUpTo(S, k) == UNION {[1..j -> S] : j \in 0..k}

\* a box-score line with the given shooting numbers
MkRecord(m, a, f, t) ==
    [k \in Fields |->
        CASE k = "FGM" -> m
          [] k = "FGA" -> a
          [] k = "FTM" -> f
          [] k = "FTA" -> t
          [] k = "FG3M" -> m
          [] k = "PTS" -> 2 * m + f
          [] k = "REB" -> a + 1
          [] k = "AST" -> t + 2
          [] k = "STL" -> m + f
          [] k = "BLK" -> a + t
          [] k = "TOV" -> f + 1]

\* g without the key k
Drop(g, k) == [f \in DOMAIN g \ {k} |-> g[f]]

\* the free throws of a game: none taken, or one made of three
FTPairs == {<<0, 0>>, <<1, 3>>}

\* field-goal attempts range one further than makes, so that a window's
\* attempts can sum to 3 and a percentage be a third
GameRecords ==
    {MkRecord(m, a, ft[1], ft[2]) : m \in 0..MaxStat, a \in 0..(MaxStat + 1), ft \in FTPairs}

MalformedRecords == {Drop(MkRecord(1, 1, 1, 1), k) : k \in Fields}

GameLogs == SeqsUpTo(GameRecords \cup MalformedRecords, MaxGames)

NoRs == [t |-> "none", items |-> <<>>]

\* a response whose normalized dict holds rows and whose other accessors raise
NormalizedResponse(rows) ==
    [nd |-> [kind |-> "list", rows |-> rows],
     rd |-> [kind |-> "raise", resultSets |-> NoRs, resultSet |-> NoRs],
     dfs |-> [kind |-> "raise", frames |-> <<>>]]

\* a response in no recognized shape
Unparseable ==
    [nd |-> [kind |-> "raise", rows |-> <<>>],
     rd |-> [kind |-> "raise", resultSets |-> NoRs, resultSet |-> NoRs],
     dfs |-> [kind |-> "raise", frames |-> <<>>]]

PlayerSources ==
    {Raise("RequestError"), Unparseable} \cup {NormalizedResponse(log) : log \in GameLogs}

\* the column names of the raw form, for the keys the code reads
HEADERS == <<"FGM", "FGA", "FTM", "FTA", "PTS", "REB", "AST", "STL", "BLK", "TOV", "FG3M">>

\* the row tuple of a record under HEADERS
RowOf(g) == [j \in 1..Len(HEADERS) |-> g[HEADERS[j]]]

MarkA == MkRecord(0, 0, 0, 0)
MarkB == MkRecord(1, 1, 1, 1)

\* what get_normalized_dict() can give: an exception, a non-dict, a dict
\* without "PlayerGameLog", one holding a non-list there, or one holding rows
NdShapes ==
    {[kind |-> k, rows |-> <<>>] : k \in {"raise", "nondict", "nokey", "nonlist"}}
    \cup {[kind |-> "list", rows |-> r] : r \in SeqsUpTo({MarkA, MarkB}, 1)}

\* one result set: a dict with headers and rowSet, or something that is no dict
ResultSets ==
    {[isdict |-> TRUE, headers |-> h, rowSet |-> r] :
        h \in {<<>>, HEADERS, SubSeq(HEADERS, 1, Len(HEADERS) - 1)},
        r \in {<<>>, <<RowOf(MarkA)>>, <<RowOf(MarkB)>>,
                <<SubSeq(RowOf(MarkB), 1, Len(HEADERS) - 1)>>}}

NonDict == [isdict |-> FALSE, headers |-> <<>>, rowSet |-> <<>>]

\* the value under "resultSets" or "resultSet": None, a list, a dict, or
\* another truthy value
RsValues ==
    {NoRs, [t |-> "other", items |-> <<>>], [t |-> "list", items |-> <<>>],
     [t |-> "list", items |-> <<NonDict>>]}
    \cup {[t |-> "list", items |-> <<e>>] : e \in ResultSets}
    \cup {[t |-> "dict", items |-> <<e>>] : e \in ResultSets}

RdShapes ==
    {[kind |-> "raise", resultSets |-> NoRs, resultSet |-> NoRs]}
    \cup {[kind |-> "dict", resultSets |-> a, resultSet |-> b] : a \in RsValues, b \in RsValues}

\* what get_data_frames() can give: an exception, or a list of frames whose
\* first frame converts to records or fails to
DfShapes ==
    {[kind |-> "raise", frames |-> <<>>], [kind |-> "list", frames |-> <<>>],
     [kind |-> "list", frames |-> <<[ok |-> FALSE, records |-> <<>>]>>]}
    \cup {[kind |-> "list", frames |-> <<[ok |-> TRUE, records |-> r]>>] :
               r \in SeqsUpTo({MarkA, MarkB}, 1)}

ExtractResponses == [nd : NdShapes, rd : RdShapes, dfs : DfShapes]

\* the box-score lines of the team rosters
LineA == MkRecord(3, 10, 1, 2)
LineB == MkRecord(1, 2, 0, 0)
LineC == MkRecord(2, 1, 1, 1)

\* the logs of the team rosters: no game, one game of LineA, LineB or LineC,
\* three games, or one malformed record
TeamLogs ==
    {<<>>, <<LineA>>, <<LineB>>, <<LineB, LineA, LineB>>, <<LineC>>, <<Drop(LineA, "PTS")>>}

\* the windows of the team aggregation: the latest game, or three games
TeamWindows == {1, 3}

TeamSources ==
    {Raise("RequestError"), Unparseable} \cup {NormalizedResponse(log) : log \in TeamLogs}

\* ----------------------------------------------------------------- state
VARIABLES
    pc,        \* where the running function is
    src,       \* what the game log source answers for the player looked up
    n,         \* the window size
    result,    \* what the function called returned or raised
    roster,    \* the roster, a sequence of <<player id, name>>
    source,    \* what the game log source answers for each player id
    i,         \* the loop index of compute_team_stats and print_comparison
    totals,    \* compute_team_stats: the running totals
    avgs,      \* compute_team_stats: the outcome of the last player fetched
    warnings,  \* compute_team_stats: the names warned about, in order
    out,       \* compute_team_stats: the team summary returned
    s1,        \* print_comparison: the first team's summary
    s2,        \* print_comparison: the second team's summary
    lines,     \* print_comparison: the lines printed, one per category
    msg,       \* build_team: what was printed last
    matches    \* build_team: the matches of the last search

vars == <<pc, src, n, result, roster, source, i, totals, avgs, warnings, out,
          s1, s2, lines, msg, matches>>

NoResult == [pending |-> TRUE]

PlayerIdle == src = Unparseable /\ result = NoResult

TeamIdle ==
    /\ roster = <<>> /\ source = <<>> /\ i = 0 /\ totals = NoResult
    /\ avgs = NoResult /\ warnings = <<>> /\ out = NoResult

teamvars == <<roster, source, i, totals, avgs, warnings, out>>

OtherIdle ==
    /\ s1 = NoResult /\ s2 = NoResult /\ lines = <<>> /\ msg = NoResult
    /\ matches = <<>>

othervars == <<s1, s2, lines, msg, matches>>

\* ------------------------------------------- one player's last-N averages
Init ==
    /\ pc = "call"
    /\ src \in PlayerSources
    /\ n \in 1..MaxN
    /\ result = NoResult
    /\ TeamIdle
    /\ OtherIdle

LastNAverages ==
    /\ pc = "call"
    /\ result' = _last_n_averages_by_id(src, n)
    /\ pc' = "returned"
    /\ UNCHANGED <<src, n, teamvars, othervars>>

Next == LastNAverages

Spec == Init /\ [][Next]_vars

\* --------------------------------------------- extraction of the game rows
InitExtract ==
    /\ pc = "call"
    /\ src \in ExtractResponses
    /\ n = 1
    /\ result = NoResult
    /\ TeamIdle
    /\ OtherIdle

ExtractRows ==
    /\ pc = "call"
    /\ result' = _extract_gamelog_rows(src)
    /\ pc' = "returned"
    /\ UNCHANGED <<src, n, teamvars, othervars>>

NextExtract == ExtractRows

SpecExtract == InitExtract /\ [][NextExtract]_vars

\* --------------------------------------------------- the team aggregation
TotalKeys == PerGameKeys

\* mutant of Caught: only a failed request is caught
Caught_RequestOnly(e) == e.exc = "RequestError"

\* except Exception: every failure of the fetch, the parse or the averaging
\* is an Exception
Caught(e) == e.exc \in {"RequestError", "RuntimeError", "KeyError"}

\* totals[k] += float(avgs.get(k, 0.0)) for each key
AddToTotals(t, a) ==
    [k \in TotalKeys |-> FAdd(t[k], IF k \in DOMAIN a THEN a[k] ELSE Zero)]

\* mutant of TeamOut: FG% divided by the free-throw attempts
TeamOut_WrongAttempts(t) ==
    [k \in (TotalKeys \ {"FGM_pg", "FGA_pg", "FTM_pg", "FTA_pg"}) \cup {"FG%", "FT%"} |->
        CASE k = "FG%" -> IF Truthy(t["FTA_pg"]) THEN FDiv(t["FGM_pg"], t["FTA_pg"]) ELSE Zero
          [] k = "FT%" -> IF Truthy(t["FTA_pg"]) THEN FDiv(t["FTM_pg"], t["FTA_pg"]) ELSE Zero
          [] OTHER -> t[k]]

\* the summary returned: the counting totals and the two percentages
TeamOut(t) ==
    [k \in (TotalKeys \ {"FGM_pg", "FGA_pg", "FTM_pg", "FTA_pg"}) \cup {"FG%", "FT%"} |->
        CASE k = "FG%" -> IF Truthy(t["FGA_pg"]) THEN FDiv(t["FGM_pg"], t["FGA_pg"]) ELSE Zero
          [] k = "FT%" -> IF Truthy(t["FTA_pg"]) THEN FDiv(t["FTM_pg"], t["FTA_pg"]) ELSE Zero
          [] OTHER -> t[k]]

InitTeam ==
    /\ pc = "loop"
    /\ PlayerIdle
    /\ OtherIdle
    /\ n \in TeamWindows
    /\ \E k \in 0..MaxRoster :
          /\ roster = [j \in 1..k |-> <<j, j>>]
          /\ source \in [1..k -> TeamSources]
    /\ i = 1
    /\ totals = [k \in TotalKeys |-> Zero]
    /\ avgs = NoResult
    /\ warnings = <<>>
    /\ out = NoResult

\* one iteration of the loop over the roster
TeamPlayer ==
    /\ pc = "loop"
    /\ i <= Len(roster)
    /\ LET pid == roster[i][1]
           name == roster[i][2]
           a == _last_n_averages_by_id(source[pid], n)
       IN  /\ avgs' = a
           /\ IF IsExc(a)
              THEN IF Caught(a)
                   THEN /\ warnings' = Append(warnings, name)
                        /\ i' = i + 1
                        /\ UNCHANGED <<pc, totals>>
                   ELSE /\ pc' = "raised"
                        /\ UNCHANGED <<i, totals, warnings>>
              ELSE /\ totals' = AddToTotals(totals, a)
                   /\ i' = i + 1
                   /\ UNCHANGED <<pc, warnings>>
    /\ UNCHANGED <<src, n, result, roster, source, out, othervars>>

\* after the loop: the percentages and the returned summary
TeamReturn ==
    /\ pc = "loop"
    /\ i > Len(roster)
    /\ out' = TeamOut(totals)
    /\ pc' = "returned"
    /\ UNCHANGED <<src, n, result, roster, source, i, totals, avgs, warnings, othervars>>

NextTeam == TeamPlayer \/ TeamReturn

SpecTeam == InitTeam /\ [][NextTeam]_vars

\* ------------------------------------------------ the category comparison
cats == <<"FG%", "FT%", "3PM", "PTS", "REB", "AST", "STL", "BLK", "TOV">>

team1_name == "Team 1"
team2_name == "Team 2"

\* s.get(c, 0.0)
Get(s, c) == IF c \in DOMAIN s THEN s[c] ELSE Zero

\* x * 5^d, the product staying below 2^60
RECURSIVE Times5Pow(_, _)
Times5Pow(x, d) == IF d = 0 THEN x ELSE Times5Pow(UAdd(x, UShl(x, 2)), d - 1)

\* format(v, ".<d>f") for d <= 3 and 0 <= v < 2^30 / 10^d, as the number of
\* units of 10^-d printed: the exact binary value of v times 10^d (its
\* significand times 5^d, times 2^(e + d)), rounded to the nearest integer,
\* a half to the even neighbour
Fixed(v, d) ==
    IF ~Truthy(v) THEN 0
    ELSE LET x == Times5Pow(Mant(v), d)
             s == -(v.e + d)
             q == UShr(x, s)
             up == /\ UBit(x, s - 1) = 1
                   /\ (ULowNonzero(x, s - 1) \/ q.lo % 2 = 1)
         IN  q.lo + (IF up THEN 1 ELSE 0)

\* mutant of Lead: turnovers decided like every other category
Lead_HigherWins(c, v1, v2) ==
    IF FLt(v2, v1) THEN team1_name ELSE IF FLt(v1, v2) THEN team2_name ELSE "="

\* who leads category c: lower wins for TOV, higher for the others
Lead(c, v1, v2) ==
    IF c = "TOV"
    THEN IF FLt(v1, v2) THEN team1_name ELSE IF FLt(v2, v1) THEN team2_name ELSE "="
    ELSE IF FLt(v2, v1) THEN team1_name ELSE IF FLt(v1, v2) THEN team2_name ELSE "="

\* the digits printed for category c
Digits(c) == IF c \in {"FG%", "FT%"} THEN 3 ELSE 2

\* team summaries: every category at b/3, one category (or none) a third higher
CompareSummaries ==
    {[c \in {cats[j] : j \in 1..Len(cats)} |-> Dbl(IF c = d THEN b + 1 ELSE b, 3)] :
        b \in 0..MaxStat, d \in {cats[j] : j \in 1..Len(cats)} \cup {"none"}}

InitCompare ==
    /\ pc = "loop"
    /\ PlayerIdle
    /\ n = 1
    /\ roster = <<>> /\ source = <<>> /\ totals = NoResult
    /\ avgs = NoResult /\ warnings = <<>> /\ out = NoResult
    /\ i = 1
    /\ s1 \in CompareSummaries
    /\ s2 \in CompareSummaries
    /\ lines = <<>>
    /\ msg = NoResult
    /\ matches = <<>>

\* one pass of the loop over the categories: one line printed
PrintCategory ==
    /\ pc = "loop"
    /\ i <= Len(cats)
    /\ LET c == cats[i]
           v1 == Get(s1, c)
           v2 == Get(s2, c)
       IN  lines' = Append(lines, [cat |-> c, v1 |-> Fixed(v1, Digits(c)),
                                   v2 |-> Fixed(v2, Digits(c)), lead |-> Lead(c, v1, v2)])
    /\ i' = i + 1
    /\ UNCHANGED <<pc, src, n, result, roster, source, totals, avgs, warnings, out,
                   s1, s2, msg, matches>>

ComparisonReturn ==
    /\ pc = "loop"
    /\ i > Len(cats)
    /\ pc' = "returned"
    /\ UNCHANGED <<src, n, result, teamvars, othervars>>

NextCompare == PrintCategory \/ ComparisonReturn

SpecCompare == InitCompare /\ [][NextCompare]_vars

\* --------------------------------------------------- the roster builder
\* the static player list: ids 1..NumPlayers; names are codes ordered as
\* the names sort, two consecutive ids sharing a name; odd ids are active
Players ==
    {[id |-> p, full_name |-> (p + 1) \div 2, is_active |-> (p % 2 = 1)] : p \in 1..NumPlayers}

\* the results with a later entry of an id already seen removed
RECURSIVE Dedupe(_)
Dedupe(results) ==
    IF results = <<>> THEN <<>>
    ELSE LET front == Dedupe(SubSeq(results, 1, Len(results) - 1))
             r == results[Len(results)]
         IN  IF \E j \in 1..Len(front) : front[j].id = r.id THEN front
             ELSE Append(front, r)

\* the sort key (not is_active, full_name) of a before or equal to that of b
KeyLe(a, b) ==
    \/ a.is_active /\ ~b.is_active
    \/ a.is_active = b.is_active /\ a.full_name <= b.full_name

\* r put into the sorted sequence sq after the entries whose key is not greater
RECURSIVE Insert(_, _)
Insert(sq, r) ==
    IF sq = <<>> THEN <<r>>
    ELSE IF KeyLe(Head(sq), r) THEN <<Head(sq)>> \o Insert(Tail(sq), r)
         ELSE <<r>> \o sq

\* list.sort: stable, ascending by key
RECURSIVE Sort(_)
Sort(sq) ==
    IF sq = <<>> THEN <<>>
    ELSE Insert(Sort(SubSeq(sq, 1, Len(sq) - 1)), sq[Len(sq)])

\* search_players, given what find_players_by_full_name returned
search_players(results) == Sort(Dedupe(results))

\* what find_players_by_full_name can return for some query
SearchResults == SeqsUpTo(Players, MaxMatches)

\* what the user can type at the pick prompt: 'r', something that is no
\* number, or a number
Picks ==
    {[kind |-> "r", val |-> 0], [kind |-> "text", val |-> 0]}
    \cup {[kind |-> "int", val |-> v] : v \in -1..(MaxMatches + 1)}

\* mutant of OnRoster: the id compared with the roster entry, not its id
OnRoster_WholeEntry(pid, r) == \E j \in 1..Len(r) : r[j] = <<pid>>

\* any(pid == p for p, _ in roster)
OnRoster(pid, r) == \E j \in 1..Len(r) : r[j][1] = pid

Printed(text, pid) == [text |-> text, pid |-> pid]

InitBuild ==
    /\ pc = "prompt"
    /\ PlayerIdle
    /\ n = 1
    /\ roster = <<>>
    /\ source = <<>> /\ i = 0 /\ totals = NoResult
    /\ avgs = NoResult /\ warnings = <<>> /\ out = NoResult
    /\ s1 = NoResult /\ s2 = NoResult /\ lines = <<>>
    /\ msg = Printed("banner", 0)
    /\ matches = <<>>

buildfixed == <<src, n, result, source, i, totals, avgs, warnings, out, s1, s2, lines>>

\* at the command prompt, 'done': refused while the roster is empty, else
\* the roster is returned
BuildDone ==
    /\ pc = "prompt"
    /\ IF roster = <<>>
       THEN msg' = Printed("empty", 0) /\ pc' = pc
       ELSE msg' = Printed("none", 0) /\ pc' = "returned"
    /\ UNCHANGED <<roster, matches, buildfixed>>

\* at the command prompt, a blank command: asked again
BuildBlank ==
    /\ pc = "prompt"
    /\ msg' = Printed("none", 0)
    /\ UNCHANGED <<pc, roster, matches, buildfixed>>

\* at the command prompt, a search without matches: asked again
BuildNoMatches ==
    /\ pc = "prompt"
    /\ matches' = search_players(<<>>)
    /\ matches' = <<>>
    /\ msg' = Printed("no matches", 0)
    /\ UNCHANGED <<pc, roster, buildfixed>>

\* at the command prompt, a search with matches: they are listed and the
\* function waits at the pick prompt
BuildSearch ==
    /\ pc = "prompt"
    /\ \E results \in SearchResults \ {<<>>} : matches' = search_players(results)
    /\ msg' = Printed("matches", 0)
    /\ pc' = "pick"
    /\ UNCHANGED <<roster, buildfixed>>

\* at the pick prompt, what the user types: the pick is handled and the
\* function is back at the command prompt
BuildPick ==
    /\ pc = "pick"
    /\ \E sel \in Picks :
          IF sel.kind = "r" THEN msg' = Printed("retry", 0) /\ roster' = roster
          ELSE IF sel.kind = "text" THEN msg' = Printed("invalid", 0) /\ roster' = roster
          ELSE IF 1 <= sel.val /\ sel.val <= Len(matches)
               THEN LET chosen == matches[sel.val]
                        pid == chosen.id
                        name == chosen.full_name
                    IN  IF OnRoster(pid, roster)
                        THEN msg' = Printed("already", pid) /\ roster' = roster
                        ELSE /\ roster' = Append(roster, <<pid, name>>)
                             /\ msg' = Printed("added", pid)
               ELSE msg' = Printed("out of range", 0) /\ roster' = roster
    /\ pc' = "prompt"
    /\ UNCHANGED <<matches, buildfixed>>

NextBuild == BuildDone \/ BuildBlank \/ BuildNoMatches \/ BuildSearch \/ BuildPick

SpecBuild == InitBuild /\ [][NextBuild]_vars

\* ----------------------------------------- properties of the averaging
\* the call returned a summary computed from the rows of the response
Summarised == pc = "returned" /\ ~IsExc(src) /\ src.nd.kind = "list" /\ ~IsExc(result)

Rows == src.nd.rows

\* the integer sum of key f over the first k records of rows
RECURSIVE RefSum(_, _, _)
RefSum(rows, k, f) == IF k = 0 THEN 0 ELSE RefSum(rows, k - 1, f) + rows[k][f]

\* C3: the active window is the first min(N, len(records)) records in
\* source order, and games_used is min(N, len(records)).
C3_Window ==
    Summarised =>
        /\ result["games_used"] = Min(n, Len(Rows))
        /\ Recent(Rows, n) = [j \in 1..Min(n, Len(Rows)) |-> Rows[j]]
        /\ \A k \in PerGameKeys :
              result[k] = Dbl(RefSum(Rows, Min(n, Len(Rows)), SourceField(k)),
                              Max(1, Min(n, Len(Rows))))

\* a log longer than the window whose later record differs from the first
C3_Witness ==
    /\ Summarised
    /\ Len(Rows) > n
    /\ Rows[1] # Rows[Len(Rows)]
    /\ result["games_used"] = n

\* C4: every per-game value is the window sum of its stat divided by
\* max(1, games_used); an empty log gives games_used = 0 and all zeros.
C4_PerGame ==
    Summarised =>
        /\ \A k \in PerGameKeys :
              result[k] = Dbl(RefSum(Rows, result["games_used"], SourceField(k)),
                              Max(1, result["games_used"]))
        /\ Rows = <<>> =>
              /\ result["games_used"] = 0
              /\ \A k \in PerGameKeys : result[k] = Zero

\* two games averaged to a value that is not a whole number
C4_Witness ==
    /\ Summarised
    /\ result["games_used"] = 2
    /\ result["PTS"] = Dbl(1, 2)

\* C5: a player's percentage is window makes over window attempts when the
\* attempts sum is positive, and exactly 0 when it is 0.
C5_PlayerPct ==
    Summarised =>
        LET w == result["games_used"]
            chk(pct, mk, at) ==
                IF RefSum(Rows, w, at) > 0
                THEN result[pct] = Dbl(RefSum(Rows, w, mk), RefSum(Rows, w, at))
                ELSE result[pct] = Zero
        IN  chk("FG%", "FGM", "FGA") /\ chk("FT%", "FTM", "FTA")

\* a 1-for-1 game and a 0-for-2 game without free throws: the window
\* percentage is the float nearest to 1/3, where the mean of the per-game
\* percentages would be 50%
C5_Witness ==
    /\ Summarised
    /\ result["games_used"] = 2
    /\ Rows[1]["FGM"] = 1 /\ Rows[1]["FGA"] = 1
    /\ Rows[2]["FGM"] = 0 /\ Rows[2]["FGA"] = 2
    /\ Rows[1]["FTA"] = 0 /\ Rows[2]["FTA"] = 0
    /\ result["FG%"] = Dbl(1, 3)
    /\ result["FT%"] = Zero

\* the response carried rows and the call has returned
Fetched == pc = "returned" /\ ~IsExc(src) /\ src.nd.kind = "list"

\* C10 as stated: a returned record missing an expected key, anywhere in
\* the log, makes the computation fail.
C10_AnyMalformedFails ==
    (Fetched /\ \E j \in 1..Len(Rows) : ~WellFormed(Rows[j])) => IsExc(result)

\* C10 amended: a record of the active window missing an expected key makes
\* the computation fail with no summary.
C10_WindowMalformedFails ==
    (Fetched /\ \E j \in 1..Min(n, Len(Rows)) : ~WellFormed(Rows[j]))
        => result = Raise("KeyError")

\* a well-formed first record and a malformed second one inside the window
C10_Witness ==
    /\ Fetched
    /\ n >= 2 /\ Len(Rows) >= 2
    /\ WellFormed(Rows[1]) /\ ~WellFormed(Rows[2])
    /\ result = Raise("KeyError")

\* ------------------------------------------ properties of the extraction
\* the normalized keyed form parses: a dict with a list under "PlayerGameLog"
NdParses == src.nd.kind = "list"

\* the result set the raw form is read from: "resultSets" unless it is
\* missing or empty, else "resultSet"
RawPick ==
    IF src.rd.resultSets.t \in {"other", "dict"}
          \/ (src.rd.resultSets.t = "list" /\ Len(src.rd.resultSets.items) > 0)
    THEN src.rd.resultSets ELSE src.rd.resultSet

\* the raw header/row-tuple form parses: a result set with headers and rows
RawParses ==
    /\ src.rd.kind = "dict"
    /\ RawPick.t \in {"list", "dict"}
    /\ Len(RawPick.items) > 0
    /\ RawPick.items[1].isdict
    /\ Len(RawPick.items[1].headers) > 0
    /\ Len(RawPick.items[1].rowSet) > 0

\* the tabular form parses: a first frame that converts to records
DfParses ==
    /\ src.dfs.kind = "list"
    /\ Len(src.dfs.frames) > 0
    /\ src.dfs.frames[1].ok

\* C9: the shapes are tried in the order normalized, raw, tabular and the
\* records of the first that parses are returned; when none parses the
\* call raises the unparseable-response error and returns no (empty) list.
C9_FirstShapeOrFatal ==
    pc = "returned" =>
        /\ NdParses => result = Return(src.nd.rows)
        /\ (~NdParses /\ RawParses) =>
              LET hs == RawPick.items[1].headers
                  rs == RawPick.items[1].rowSet
              IN  /\ ~IsExc(result)
                  /\ Len(result.val) = Len(rs)
                  /\ \A j \in 1..Len(rs) :
                        /\ DOMAIN result.val[j] = {hs[q] : q \in 1..Min(Len(hs), Len(rs[j]))}
                        /\ \A q \in 1..Min(Len(hs), Len(rs[j])) :
                              result.val[j][hs[q]] = rs[j][q]
        /\ (~NdParses /\ ~RawParses /\ DfParses) =>
              result = Return(src.dfs.frames[1].records)
        /\ (~NdParses /\ ~RawParses /\ ~DfParses) <=> result = Raise("RuntimeError")

\* a response none of whose three forms parses
C9_Witness ==
    /\ pc = "returned"
    /\ src.nd.kind = "nokey"
    /\ src.rd.kind = "dict" /\ src.rd.resultSets.t = "list"
    /\ src.rd.resultSets.items = <<>> /\ src.rd.resultSet.t = "none"
    /\ src.dfs.kind = "list" /\ src.dfs.frames = <<>>
    /\ result = Raise("RuntimeError")

\* ------------------------------------ properties of the team aggregation
\* the outcome of the fetch of the j-th player of the roster
PlayerSummary(j) == _last_n_averages_by_id(source[roster[j][1]], n)

\* the positions among the first k of the roster whose fetch succeeded
Succeeded(k) == {j \in 1..k : ~IsExc(PlayerSummary(j))}

\* the sum of key over the summaries of the players that succeeded among
\* the first k of the roster
RECURSIVE RefTotal(_, _)
RefTotal(k, key) ==
    IF k = 0 THEN Zero
    ELSE IF ~IsExc(PlayerSummary(k)) THEN FAdd(RefTotal(k - 1, key), PlayerSummary(k)[key])
         ELSE RefTotal(k - 1, key)

\* C1: the team FG% is the sum of the players' FGM_pg over the sum of their
\* FGA_pg, and the team FT% the sum of FTM_pg over the sum of FTA_pg.
C1_TeamPctWeighted ==
    pc = "returned" =>
        LET K == Len(roster)
        IN  /\ Truthy(RefTotal(K, "FGA_pg")) =>
                  out["FG%"] = FDiv(RefTotal(K, "FGM_pg"), RefTotal(K, "FGA_pg"))
            /\ Truthy(RefTotal(K, "FTA_pg")) =>
                  out["FT%"] = FDiv(RefTotal(K, "FTM_pg"), RefTotal(K, "FTA_pg"))

\* players at 3 of 10 and 1 of 2 per game: the team shoots 4/12, not 40%
C1_Witness ==
    /\ pc = "returned"
    /\ Len(roster) = 2
    /\ Succeeded(2) = {1, 2}
    /\ PlayerSummary(1)["FGM_pg"] = float(3) /\ PlayerSummary(1)["FGA_pg"] = float(10)
    /\ PlayerSummary(2)["FGM_pg"] = float(1) /\ PlayerSummary(2)["FGA_pg"] = float(2)
    /\ out["FG%"] = Dbl(4, 12)
    /\ out["FG%"] # Dbl(2, 5)

InUnit(x) == FLe(Zero, x) /\ FLe(x, One)

\* the rows of the log of the j-th player, when the source answered with rows
LogOf(j) ==
    LET sc == source[roster[j][1]]
    IN  IF ~IsExc(sc) /\ sc.nd.kind = "list" THEN sc.nd.rows ELSE <<>>

\* no record of the log has more makes than attempts
MakesWithinAttempts(rows) ==
    \A j \in 1..Len(rows) :
        WellFormed(rows[j]) =>
            rows[j]["FGM"] <= rows[j]["FGA"] /\ rows[j]["FTM"] <= rows[j]["FTA"]

\* C2 as stated: with non-negative makes and attempts, every player
\* percentage and every team percentage lies in [0, 1].
C2_PctInUnitRange ==
    /\ (pc \in {"loop", "returned"} /\ avgs # NoResult /\ ~IsExc(avgs)) =>
            InUnit(avgs["FG%"]) /\ InUnit(avgs["FT%"])
    /\ pc = "returned" => InUnit(out["FG%"]) /\ InUnit(out["FT%"])

\* C2 amended: with non-negative makes and attempts and no record having
\* more makes than attempts, every player percentage and every team
\* percentage lies in [0, 1].
C2_PctInUnitRangeWhenMakesWithinAttempts ==
    /\ (pc \in {"loop", "returned"} /\ avgs # NoResult /\ ~IsExc(avgs)
            /\ MakesWithinAttempts(LogOf(i - 1))) =>
            InUnit(avgs["FG%"]) /\ InUnit(avgs["FT%"])
    /\ (pc = "returned" /\ \A j \in Succeeded(Len(roster)) : MakesWithinAttempts(LogOf(j))) =>
            InUnit(out["FG%"]) /\ InUnit(out["FT%"])

\* two players with makes within attempts and a team FG% strictly inside
C2_Witness ==
    /\ pc = "returned"
    /\ Succeeded(Len(roster)) = {1, 2}
    /\ \A j \in {1, 2} : LogOf(j) # <<>> /\ MakesWithinAttempts(LogOf(j))
    /\ FLt(Zero, out["FG%"]) /\ FLt(out["FG%"], One)
    /\ FLt(Zero, avgs["FG%"]) /\ FLt(avgs["FG%"], One)

\* C6: the aggregation never fails as a whole; a player whose fetch failed
\* adds nothing and is warned about once; the summary is the aggregate over
\* the players that succeeded, and all zeros when none did.
C6_FailedPlayersExcluded ==
    /\ pc # "raised"
    /\ pc = "loop" =>
          /\ \A k \in TotalKeys : totals[k] = RefTotal(i - 1, k)
          /\ Len(warnings) = (i - 1) - Cardinality(Succeeded(i - 1))
          /\ \A j \in 1..(i - 1) :
                (j \notin Succeeded(i - 1)) <=>
                    Cardinality({w \in 1..Len(warnings) : warnings[w] = roster[j][2]}) = 1
    /\ pc = "returned" =>
          LET K == Len(roster)
              ref == [k \in TotalKeys |-> RefTotal(K, k)]
          IN  /\ \A k \in DOMAIN out \ {"FG%", "FT%"} : out[k] = ref[k]
              /\ out["FG%"] = (IF Truthy(ref["FGA_pg"])
                                THEN FDiv(ref["FGM_pg"], ref["FGA_pg"]) ELSE Zero)
              /\ out["FT%"] = (IF Truthy(ref["FTA_pg"])
                                THEN FDiv(ref["FTM_pg"], ref["FTA_pg"]) ELSE Zero)
              /\ Len(warnings) = K - Cardinality(Succeeded(K))
              /\ Succeeded(K) = {} => \A k \in DOMAIN out : out[k] = Zero

\* the first player's record is malformed, the second player succeeds
C6_Witness ==
    /\ pc = "returned"
    /\ Len(roster) = 2
    /\ PlayerSummary(1) = Raise("KeyError")
    /\ Succeeded(2) = {2}
    /\ warnings = <<roster[1][2]>>
    /\ out["PTS"] = PlayerSummary(2)["PTS"]
    /\ out["PTS"] # Zero

\* --------------------------------------------- properties of the comparison
\* the number of thirds a compared value was built from
Thirds(v) == CHOOSE x \in 0..(MaxStat + 1) : v = Dbl(x, 3)

\* v1 < v2 for two compared values
Less(v1, v2) == Thirds(v1) < Thirds(v2)

\* C7: every category is decided on its own two values: the lower value
\* leads TOV, the higher value leads every other category, and equal values
\* give the tie marker, which names neither team.
C7_CategoryVerdicts ==
    /\ "=" \notin {team1_name, team2_name}
    /\ \A j \in 1..Len(lines) :
          LET c == cats[j]
              v1 == s1[c]
              v2 == s2[c]
          IN  /\ lines[j].cat = c
              /\ v1 = v2 => lines[j].lead = "="
              /\ (c = "TOV" /\ Less(v1, v2)) => lines[j].lead = team1_name
              /\ (c = "TOV" /\ Less(v2, v1)) => lines[j].lead = team2_name
              /\ (c # "TOV" /\ Less(v2, v1)) => lines[j].lead = team1_name
              /\ (c # "TOV" /\ Less(v1, v2)) => lines[j].lead = team2_name

\* one comparison with the first team higher in TOV (second team leads),
\* higher in REB (first team leads) and level in PTS (tie)
C7_Witness ==
    /\ pc = "returned"
    /\ Len(lines) = Len(cats)
    /\ Less(s2["TOV"], s1["TOV"]) /\ lines[9].lead = team2_name
    /\ Less(s2["REB"], s1["REB"]) /\ lines[5].lead = team1_name
    /\ s1["PTS"] = s2["PTS"] /\ lines[4].lead = "="

\* ------------------------------------------- properties of the roster
Ids(r) == {r[j][1] : j \in 1..Len(r)}

NoDuplicateId == \A j, k \in 1..Len(roster) : roster[j][1] = roster[k][1] => j = k

\* a step keeps the roster or appends one player not yet on it; a pick of a
\* player on the roster keeps it; only the handling of a pick changes it
RosterStep ==
    /\ \/ roster' = roster
       \/ /\ Len(roster') = Len(roster) + 1
          /\ SubSeq(roster', 1, Len(roster)) = roster
          /\ roster'[Len(roster')][1] \notin Ids(roster)
    /\ (msg'.text = "already") => (msg'.pid \in Ids(roster) /\ roster' = roster)
    /\ (msg'.text = "added") => (msg'.pid \notin Ids(roster))
    /\ (roster' # roster) => (pc = "pick" /\ msg'.text = "added")

\* C8: the roster never holds a player id twice, a pass of the loop either
\* leaves it as it is or appends one player not yet on it, and picking a
\* player already on it leaves it unchanged.
C8_RosterUnique == []NoDuplicateId /\ [][RosterStep]_vars

\* two players on the roster and the first of them picked again, the
\* function back at the command prompt
C8_Witness ==
    /\ pc = "prompt"
    /\ Len(roster) = 2
    /\ msg = Printed("already", roster[1][1])
    /\ \E j \in 1..Len(matches) : matches[j].id = roster[1][1]

====
